---- MODULE Spec2Model ----
(***************************************************************************)
(* Model of the /api/download pipeline of server.js: rendition selection   *)
(* (downloadMP3, downloadMP4, downloadAndMergeMP4), the stream fetches,    *)
(* the ffmpeg steps, the temporary files and the HTTP responses.           *)
(*                                                                         *)
(* JavaScript runs a handler to its next await without interruption, so    *)
(* every action below is one such run: the code between two awaits or one  *)
(* event callback.                                                         *)
(***************************************************************************)
EXTENDS Integers, Sequences, FiniteSets, TLC

\* ------------------------------------------------------------------ bounds
NumReq     == 2   \* concurrently served /api/download requests
MaxFormats == 3   \* length of info.formats
MaxHeight  == 2   \* heights are 0 (absent) .. MaxHeight
MaxBitrate == 2   \* audio bitrates are 0 (absent) .. MaxBitrate
MaxSize    == 1   \* contentLength is 0 (absent) .. MaxSize

Req == 1 .. NumReq

\* --------------------------------------------------------------- renditions
\* One element of info.formats. 0 stands for a missing (falsy) field.
\* Fields the code never reads for a kind of rendition are fixed: the audio
\* bitrate of a rendition with video, the height of an audio-only one.
CombinedRenditions ==
    { [hasVideo |-> TRUE, hasAudio |-> TRUE, height |-> h, audioBitrate |-> 1,
       contentLength |-> c] : h \in 0 .. MaxHeight, c \in 0 .. MaxSize }

VideoOnlyRenditions ==
    { [hasVideo |-> TRUE, hasAudio |-> FALSE, height |-> h, audioBitrate |-> 0,
       contentLength |-> c] : h \in 0 .. MaxHeight, c \in 0 .. MaxSize }

AudioOnlyRenditions ==
    { [hasVideo |-> FALSE, hasAudio |-> TRUE, height |-> 0, audioBitrate |-> b,
       contentLength |-> c] : b \in 0 .. MaxBitrate, c \in 0 .. MaxSize }

Renditions == CombinedRenditions \cup VideoOnlyRenditions \cup AudioOnlyRenditions

FormatLists == UNION { [1 .. n -> Renditions] : n \in 0 .. MaxFormats }

\* ----------------------------------------------------------------- requests
\* req.body.quality: 'best', '<n>p' or '<n>kbps'.
Best    == [unit |-> "best", n |-> 0]
P(n)    == [unit |-> "p", n |-> n]
Kbps(n) == [unit |-> "kbps", n |-> n]

Qualities == {Best} \cup { P(n) : n \in 0 .. MaxHeight + 1 }
                    \cup { Kbps(n) : n \in 1 .. MaxBitrate }

OutputFormats == {"mp3", "mp4"}

\* quality.includes('p') holds for '<n>p' and for '<n>kbps' alike, and
\* parseInt reads the leading digits of what is left. null is 0: the code
\* only tests the result for truthiness.
TargetHeight(quality) ==
    IF quality.unit # "best" /\ quality.unit \in {"p", "kbps"}
    THEN quality.n ELSE 0

\* ------------------------------------------------------------ array helpers
\* Renditions are referred to by their position in info.formats, which is
\* what tells apart two elements with equal fields.
Indices(formats) == [i \in 1 .. Len(formats) |-> i]

\* arr[0]: undefined (0) on an empty array. arr.find(test) is First of the
\* elements that pass the test: the first one that passes, else undefined.
First(idxs) == IF idxs = << >> THEN 0 ELSE Head(idxs)

\* Array.prototype.sort((a, b) => key(b) - key(a)): descending and stable.
InsertDesc(x, sorted, key) ==
    LET p == Cardinality({ j \in 1 .. Len(sorted) : key[sorted[j]] > key[x] })
    IN  SubSeq(sorted, 1, p) \o << x >> \o SubSeq(sorted, p + 1, Len(sorted))

RECURSIVE SortDesc(_, _)
SortDesc(idxs, key) ==
    IF idxs = << >> THEN << >>
    ELSE InsertDesc(Head(idxs), SortDesc(Tail(idxs), key), key)

Heights(formats)  == [i \in 1 .. Len(formats) |-> formats[i].height]
Bitrates(formats) == [i \in 1 .. Len(formats) |-> formats[i].audioBitrate]

\* ---------------------------------------------------------------- selection
videoWithAudioFormats(formats) ==
    SelectSeq(Indices(formats),
              LAMBDA i : /\ formats[i].hasVideo /\ formats[i].hasAudio
                         /\ formats[i].height # 0
                         /\ formats[i].contentLength # 0)

videoOnlyFormats(formats) ==
    SelectSeq(Indices(formats),
              LAMBDA i : /\ formats[i].hasVideo /\ ~formats[i].hasAudio
                         /\ formats[i].height # 0
                         /\ formats[i].contentLength # 0)

audioOnlyFormats(formats) ==
    SelectSeq(Indices(formats),
              LAMBDA i : /\ ~formats[i].hasVideo /\ formats[i].hasAudio
                         /\ formats[i].audioBitrate # 0
                         /\ formats[i].contentLength # 0)

\* PickByHeight falling back to the tallest candidate when none is at or
\* below the target.
PickByHeightElseTallest(formats, cands, targetHeight) ==
    LET exact == First(SelectSeq(cands,
                         LAMBDA i : formats[i].height = targetHeight))
        below == First(SortDesc(
                     SelectSeq(cands, LAMBDA i : formats[i].height <= targetHeight),
                     Heights(formats)))
    IN  IF targetHeight # 0 /\ exact # 0 THEN exact
        ELSE IF targetHeight # 0 /\ below # 0 THEN below
        ELSE First(SortDesc(cands, Heights(formats)))

\* PickByHeight over the candidates ordered by contentLength first, largest
\* first, so that the larger of two renditions of one height is met first.
PickByHeightLargerFirst(formats, cands, targetHeight) ==
    LET bySize == SortDesc(cands,
                           [i \in 1 .. Len(formats) |-> formats[i].contentLength])
    IN  IF targetHeight # 0
        THEN LET exact == First(SelectSeq(bySize,
                              LAMBDA i : formats[i].height = targetHeight))
             IN  IF exact # 0 THEN exact
                 ELSE First(SortDesc(
                         SelectSeq(bySize,
                                   LAMBDA i : formats[i].height <= targetHeight),
                         Heights(formats)))
        ELSE First(SortDesc(bySize, Heights(formats)))

\* PickByHeight with the comparator of the closest pick turned round
\* (a.height - b.height): the shortest rendition below the target wins.
PickByHeightAscending(formats, cands, targetHeight) ==
    IF targetHeight # 0
    THEN LET exact == First(SelectSeq(cands,
                          LAMBDA i : formats[i].height = targetHeight))
             below == SortDesc(
                        SelectSeq(cands, LAMBDA i : formats[i].height <= targetHeight),
                        Heights(formats))
         IN  IF exact # 0 THEN exact
             ELSE IF below = << >> THEN 0 ELSE below[Len(below)]
    ELSE First(SortDesc(cands, Heights(formats)))

\* The exact-or-closest-below pick, or the tallest when no height is asked.
PickByHeight(formats, cands, targetHeight) ==
    IF targetHeight # 0
    THEN LET exact == First(SelectSeq(cands,
                          LAMBDA i : formats[i].height = targetHeight))
         IN  IF exact # 0 THEN exact
             ELSE First(SortDesc(
                     SelectSeq(cands, LAMBDA i : formats[i].height <= targetHeight),
                     Heights(formats)))
    ELSE First(SortDesc(cands, Heights(formats)))

\* selectedFormat with the exact match left out and no sort: the first
\* combined rendition that does not exceed the target.
selectedFormatFirstBelow(formats, quality) ==
    IF TargetHeight(quality) # 0
    THEN First(SelectSeq(videoWithAudioFormats(formats),
                         LAMBDA i : formats[i].height <= TargetHeight(quality)))
    ELSE First(SortDesc(videoWithAudioFormats(formats), Heights(formats)))

\* downloadMP4: the combined rendition of the single-stream path, or 0.
selectedFormat(formats, quality) ==
    PickByHeight(formats, videoWithAudioFormats(formats), TargetHeight(quality))

\* videoFormat without the "if not found, get closest" step.
videoFormatExactOnly(formats, quality) ==
    IF TargetHeight(quality) # 0
    THEN First(SelectSeq(videoOnlyFormats(formats),
                         LAMBDA i : formats[i].height = TargetHeight(quality)))
    ELSE First(SortDesc(videoOnlyFormats(formats), Heights(formats)))

\* downloadAndMergeMP4: the video-only rendition, or 0.
videoFormat(formats, quality) ==
    PickByHeight(formats, videoOnlyFormats(formats), TargetHeight(quality))

\* audioFormat without the sort: the first audio-only rendition.
audioFormatFirst(formats) == First(audioOnlyFormats(formats))

\* downloadAndMergeMP4: the audio-only rendition, or 0.
audioFormat(formats) ==
    First(SortDesc(audioOnlyFormats(formats), Bitrates(formats)))

\* bestAudioFormat looking for the requested bitrate first.
bestAudioFormatExactFirst(formats, quality) ==
    LET exact == IF quality.unit = "kbps"
                 THEN First(SelectSeq(audioOnlyFormats(formats),
                            LAMBDA i : formats[i].audioBitrate = quality.n))
                 ELSE 0
    IN  IF exact # 0 THEN exact
        ELSE First(SortDesc(audioOnlyFormats(formats), Bitrates(formats)))

\* downloadMP3: the audio-only rendition, or 0 (the code throws then).
bestAudioFormat(formats, quality) ==
    First(SortDesc(audioOnlyFormats(formats), Bitrates(formats)))

\* info.formats had the code sorted allFormats itself by height.
formatsSortedInPlace(formats) ==
    LET order == SortDesc(Indices(formats), Heights(formats))
    IN  [j \in 1 .. Len(formats) |-> formats[order[j]]]

\* info.formats once a selection has run over it. filter() returns a new
\* array and every sort() of the three functions is applied to such a copy.
formatsAfterSelection(formats) == formats

\* ---------------------------------------------------------------- filenames
\* info.videoDetails.title of the videos a request can name, as characters.
Videos == { << "a", " ", " ", "b" >>, << "c" >> }
BadUrl == << >>   \* a url that ytdl.validateURL rejects

ForbiddenChars == { "<", ">", ":", "\"", "/", "\\", "|", "?", "*" }
Whitespace     == { " ", "\t" }

\* .replace(/[<>:"/\\|?*]/g, '_')
ReplaceForbidden(s) ==
    [i \in 1 .. Len(s) |-> IF s[i] \in ForbiddenChars THEN "_" ELSE s[i]]

\* .replace(/\s+/g, '_'): each run of whitespace becomes one underscore.
RECURSIVE ReplaceWhitespace(_)
ReplaceWhitespace(s) ==
    IF s = << >> THEN << >>
    ELSE IF Head(s) \in Whitespace
         THEN IF Len(s) > 1 /\ s[2] \in Whitespace
              THEN ReplaceWhitespace(Tail(s))
              ELSE << "_" >> \o ReplaceWhitespace(Tail(s))
         ELSE << Head(s) >> \o ReplaceWhitespace(Tail(s))

sanitizeFilename(filename) == ReplaceWhitespace(ReplaceForbidden(filename))

Titles == { sanitizeFilename(v) : v \in Videos }

\* The four paths a request derives from its title, all in downloadsDir.
FileKinds == { "mp3", "mp4", "temp_video", "temp_audio" }
Paths     == Titles \X FileKinds

filepath(title, ext)  == << title, ext >>
tempVideoPath(title)  == << title, "temp_video" >>
tempAudioPath(title)  == << title, "temp_audio" >>

\* ---------------------------------------------------------------- the disk
\* A path holds no file, a file still being written or cut short
\* ("partial"), or a complete one. w is the set of requests with a write
\* stream open on the file the path names now: unlinking a file leaves its
\* writers with a file no path names any more.
NoFile == [st |-> "absent", w |-> {}]

existsSync(fs, path) == fs[path].st # "absent"

\* fs.createWriteStream / ffmpeg opening its output: creates or truncates.
createWriteStream(fs, path, r) ==
    [fs EXCEPT ![path] = [st |-> "partial", w |-> @.w \cup {r}]]

\* The writer reached the end of its data and closed the file.
finishWrite(fs, path, r) ==
    IF r \in fs[path].w
    THEN [fs EXCEPT ![path] =
            [st |-> IF @.w = {r} THEN "complete" ELSE "partial", w |-> @.w \ {r}]]
    ELSE fs

\* The writer was destroyed before the end of its data.
abortWrite(fs, path, r) ==
    IF r \in fs[path].w
    THEN [fs EXCEPT ![path] = [st |-> "partial", w |-> @.w \ {r}]]
    ELSE fs

\* if (fs.existsSync(path)) fs.unlinkSync(path)
unlinkIfExists(fs, path) ==
    IF existsSync(fs, path) THEN [fs EXCEPT ![path] = NoFile] ELSE fs

\* cleanUpTempFiles without its second line.
cleanUpTempVideoOnly(fs, title) == unlinkIfExists(fs, tempVideoPath(title))

\* The "Clean up temp files" pair of downloadAndMergeMP4.
cleanUpTempFiles(fs, title) ==
    unlinkIfExists(unlinkIfExists(fs, tempVideoPath(title)), tempAudioPath(title))

\* -------------------------------------------------------------------- state
VARIABLES
    catalog,   \* the formats ytdl.getInfo returns
    pc,        \* per request: where its handler waits
    input,     \* per request: req.body
    info,      \* per request: info.formats as the handler holds it
    plan,      \* per request: the selections made, in order
    started,   \* per request: the fetches and ffmpeg runs started, in order
    resp,      \* per request: the responses sent, in order
    files,     \* downloadsDir
    fetching,  \* per request: the ytdl streams opened and not yet settled
    videoInfo  \* per /api/video-info request: its retry loop and answer

vars == << catalog, pc, input, info, plan, started, resp, files, fetching,
           videoInfo >>

\* A /api/video-info request not yet received: the handler's position, the
\* attempts counter of its loop, the ytdl.getInfo calls made, the message of
\* each failed call, the setTimeout delays waited (ms) and the answers sent.
NoLookup == [pc |-> "idle", attempts |-> 0, calls |-> 0, errors |-> << >>,
             waits |-> << >>, resp |-> << >>]

NoInput == [url |-> BadUrl, format |-> "mp4", quality |-> Best]

titleOf(r) == sanitizeFilename(input[r].url)

SinglePlan(v)  == [kind |-> "single", v |-> v, a |-> 0]
DualPlan(v, a) == [kind |-> "dual",   v |-> v, a |-> a]
AudioPlan(a)   == [kind |-> "audio",  v |-> 0, a |-> a]
NoPlan(v, a)   == [kind |-> "noplan", v |-> v, a |-> a]

\* What a run of handler code leaves behind for request r.
Outcome(next, plans, starts, responses, fs) ==
    [pc |-> next, plan |-> plans, started |-> starts, resp |-> responses,
     files |-> fs]

\* The streams whose end or failure resumes a handler that waits at `at`
\* and goes on to `next`: the pipeline it awaited, or the audio stream that
\* ffmpeg was reading when the conversion ends or errors.
Settled(at, next) ==
    IF at \in {"single", "video", "audio"} THEN {at}
    ELSE IF at \in {"mp3", "converting"} /\ next = "done" THEN {"audio"}
    ELSE {}

Apply(r, o) ==
    /\ pc' = [pc EXCEPT ![r] = o.pc]
    /\ plan' = [plan EXCEPT ![r] = @ \o o.plan]
    /\ started' = [started EXCEPT ![r] = @ \o o.started]
    /\ resp' = [resp EXCEPT ![r] = @ \o o.resp]
    /\ files' = o.files
    /\ fetching' = [fetching EXCEPT ![r] =
                       (@ \ Settled(pc[r], o.pc))
                       \cup ({ o.started[i] : i \in DOMAIN o.started } \ {"ffmpeg"})]
    /\ UNCHANGED videoInfo

\* ------------------------------------------------------------ handler code
\* downloadAndMergeMP4 opening both ytdl streams before awaiting either.
downloadAndMergeMP4BothAtOnce(r, formats, fs) ==
    LET v == videoFormat(formats, input[r].quality)
        a == audioFormat(formats)
    IN  IF v = 0 \/ a = 0
        THEN Outcome("done", << NoPlan(v, a) >>, << >>, << "merge_failed" >>,
                     cleanUpTempFiles(fs, titleOf(r)))
        ELSE Outcome("video", << DualPlan(v, a) >>, << "video", "audio" >>, << >>,
                     createWriteStream(
                         createWriteStream(fs, tempVideoPath(titleOf(r)), r),
                         tempAudioPath(titleOf(r)), r))

\* downloadAndMergeMP4 throwing only when both formats are missing
\* (!videoFormat && !audioFormat).
downloadAndMergeMP4NeedsOne(r, formats, fs) ==
    LET v == videoFormat(formats, input[r].quality)
        a == audioFormat(formats)
    IN  IF v = 0 /\ a = 0
        THEN Outcome("done", << NoPlan(v, a) >>, << >>, << "merge_failed" >>,
                     cleanUpTempFiles(fs, titleOf(r)))
        ELSE Outcome("video", << DualPlan(v, a) >>, << "video" >>, << >>,
                     createWriteStream(fs, tempVideoPath(titleOf(r)), r))

\* downloadAndMergeMP4 from its first line to its first await, or to the end
\* of its catch block when the selection throws.
downloadAndMergeMP4(r, formats, fs) ==
    LET v == videoFormat(formats, input[r].quality)
        a == audioFormat(formats)
    IN  IF v = 0 \/ a = 0
        THEN Outcome("done", << NoPlan(v, a) >>, << >>, << "merge_failed" >>,
                     cleanUpTempFiles(fs, titleOf(r)))
        ELSE Outcome("video", << DualPlan(v, a) >>, << "video" >>, << >>,
                     createWriteStream(fs, tempVideoPath(titleOf(r)), r))

\* downloadMP4 from its first line to its first await.
\* downloadMP4 writing the single stream to the temp video path.
downloadMP4ToTemp(r, formats, fs) ==
    LET s == selectedFormat(formats, input[r].quality)
    IN  IF s # 0
        THEN Outcome("single", << SinglePlan(s) >>, << "single" >>, << >>,
                     createWriteStream(fs, tempVideoPath(titleOf(r)), r))
        ELSE downloadAndMergeMP4(r, formatsAfterSelection(formats), fs)

downloadMP4(r, formats, fs) ==
    LET s == selectedFormat(formats, input[r].quality)
    IN  IF s # 0
        THEN Outcome("single", << SinglePlan(s) >>, << "single" >>, << >>,
                     createWriteStream(fs, filepath(titleOf(r), "mp4"), r))
        ELSE downloadAndMergeMP4(r, formatsAfterSelection(formats), fs)

\* downloadMP3 from its first line to its return: the audio stream is
\* handed to ffmpeg at once and the two event handlers answer later.
downloadMP3(r, formats, fs) ==
    LET a == bestAudioFormat(formats, input[r].quality)
    IN  IF a = 0
        THEN Outcome("done", << NoPlan(0, 0) >>, << >>, << "mp3_failed" >>, fs)
        ELSE Outcome("mp3", << AudioPlan(a) >>, << "audio", "ffmpeg" >>, << >>, fs)

\* ------------------------------------------------------------------ actions
\* POST /api/download up to the await of ytdl.getInfo.
Post(r) ==
    /\ pc[r] = "idle"
    /\ \E url \in Videos \cup {BadUrl}, format \in OutputFormats,
          quality \in {Best, P(1)} :
         /\ input' = [input EXCEPT ![r] =
                         [url |-> url, format |-> format, quality |-> quality]]
         /\ IF url = BadUrl
            THEN /\ pc' = [pc EXCEPT ![r] = "done"]
                 /\ resp' = [resp EXCEPT ![r] = @ \o << "invalid_url" >>]
            ELSE /\ pc' = [pc EXCEPT ![r] = "getInfo"]
                 /\ UNCHANGED resp
    /\ UNCHANGED << catalog, info, plan, started, files, fetching, videoInfo >>

\* ytdl.getInfo resolves: the handler calls downloadMP3 or downloadMP4.
GetInfoOk(r) ==
    /\ pc[r] = "getInfo"
    /\ info' = [info EXCEPT ![r] = formatsAfterSelection(catalog)]
    /\ Apply(r, IF input[r].format = "mp3" THEN downloadMP3(r, catalog, files)
                ELSE downloadMP4(r, catalog, files))
    /\ UNCHANGED << catalog, input >>

\* ytdl.getInfo rejects: the catch of the route answers.
GetInfoFail(r) ==
    /\ pc[r] = "getInfo"
    /\ Apply(r, Outcome("done", << >>, << >>,
                        IF resp[r] = << >> THEN << "download_failed" >> ELSE << >>,
                        files))
    /\ UNCHANGED << catalog, input, info >>

\* The single-stream pipeline resolves.
SingleStreamOk(r) ==
    /\ pc[r] = "single"
    /\ Apply(r, Outcome("done", << >>, << >>, << "success" >>,
                        finishWrite(files, filepath(titleOf(r), "mp4"), r)))
    /\ UNCHANGED << catalog, input, info >>

\* SingleStreamFail with an answer sent from catch (streamError) before the
\* fallback is tried.
SingleStreamFailAnswers(r) ==
    /\ pc[r] = "single"
    /\ info' = [info EXCEPT ![r] = formatsAfterSelection(@)]
    /\ LET o == downloadAndMergeMP4(r, info[r],
                    abortWrite(files, filepath(titleOf(r), "mp4"), r))
       IN  Apply(r, [o EXCEPT !.resp = << "mp4_failed" >> \o @])
    /\ UNCHANGED << catalog, input >>

\* The single-stream pipeline rejects: catch (streamError) falls back.
SingleStreamFail(r) ==
    /\ pc[r] = "single"
    /\ info' = [info EXCEPT ![r] = formatsAfterSelection(@)]
    /\ Apply(r, downloadAndMergeMP4(r, info[r],
                    abortWrite(files, filepath(titleOf(r), "mp4"), r)))
    /\ UNCHANGED << catalog, input >>

\* The video pipeline resolves: the audio fetch starts.
\* VideoStreamOk with the merge started without awaiting the audio pipeline.
VideoStreamOkMergesAtOnce(r) ==
    /\ pc[r] = "video"
    /\ Apply(r, Outcome("merge", << >>, << "audio", "ffmpeg" >>, << >>,
                        createWriteStream(
                            finishWrite(files, tempVideoPath(titleOf(r)), r),
                            tempAudioPath(titleOf(r)), r)))
    /\ UNCHANGED << catalog, input, info >>

VideoStreamOk(r) ==
    /\ pc[r] = "video"
    /\ Apply(r, Outcome("audio", << >>, << "audio" >>, << >>,
                        createWriteStream(
                            finishWrite(files, tempVideoPath(titleOf(r)), r),
                            tempAudioPath(titleOf(r)), r)))
    /\ UNCHANGED << catalog, input, info >>

\* VideoStreamFail with the catch opening the video stream once more.
VideoStreamFailRetries(r) ==
    /\ pc[r] = "video"
    /\ Apply(r, Outcome("video", << >>, << "video" >>, << >>,
                        createWriteStream(
                            abortWrite(files, tempVideoPath(titleOf(r)), r),
                            tempVideoPath(titleOf(r)), r)))
    /\ UNCHANGED << catalog, input, info >>

\* The video pipeline rejects: the catch of downloadAndMergeMP4.
VideoStreamFail(r) ==
    /\ pc[r] = "video"
    /\ Apply(r, Outcome("done", << >>, << >>, << "merge_failed" >>,
                        cleanUpTempFiles(
                            abortWrite(files, tempVideoPath(titleOf(r)), r),
                            titleOf(r))))
    /\ UNCHANGED << catalog, input, info >>

\* The audio pipeline resolves: ffmpeg is started on the two temp files.
AudioStreamOk(r) ==
    /\ pc[r] = "audio"
    /\ Apply(r, Outcome("merge", << >>, << "ffmpeg" >>, << >>,
                        finishWrite(files, tempAudioPath(titleOf(r)), r)))
    /\ UNCHANGED << catalog, input, info >>

\* The audio pipeline rejects: the catch of downloadAndMergeMP4.
AudioStreamFail(r) ==
    /\ pc[r] = "audio"
    /\ Apply(r, Outcome("done", << >>, << >>, << "merge_failed" >>,
                        cleanUpTempFiles(
                            abortWrite(files, tempAudioPath(titleOf(r)), r),
                            titleOf(r))))
    /\ UNCHANGED << catalog, input, info >>

\* ffmpeg has opened both inputs and writes the merged file to filepath.
MergeSave(r) ==
    /\ pc[r] = "merge"
    /\ existsSync(files, tempVideoPath(titleOf(r)))
    /\ existsSync(files, tempAudioPath(titleOf(r)))
    /\ Apply(r, Outcome("merging", << >>, << >>, << >>,
                        createWriteStream(files, filepath(titleOf(r), "mp4"), r)))
    /\ UNCHANGED << catalog, input, info >>

\* .on('end') of the merge.
MergeEnd(r) ==
    /\ pc[r] = "merging"
    /\ Apply(r, Outcome("done", << >>, << >>, << "success" >>,
                        cleanUpTempFiles(
                            finishWrite(files, filepath(titleOf(r), "mp4"), r),
                            titleOf(r))))
    /\ UNCHANGED << catalog, input, info >>

\* .on('error') of the merge.
MergeError(r) ==
    /\ pc[r] \in {"merge", "merging"}
    /\ Apply(r, Outcome("done", << >>, << >>, << "merge_error" >>,
                        cleanUpTempFiles(
                            abortWrite(files, filepath(titleOf(r), "mp4"), r),
                            titleOf(r))))
    /\ UNCHANGED << catalog, input, info >>

\* ffmpeg has read the head of the audio stream and writes the mp3.
Mp3Save(r) ==
    /\ pc[r] = "mp3"
    /\ Apply(r, Outcome("converting", << >>, << >>, << >>,
                        createWriteStream(files, filepath(titleOf(r), "mp3"), r)))
    /\ UNCHANGED << catalog, input, info >>

\* ffmpegProcess.on('end') of the conversion.
Mp3End(r) ==
    /\ pc[r] = "converting"
    /\ Apply(r, Outcome("done", << >>, << >>, << "success" >>,
                        finishWrite(files, filepath(titleOf(r), "mp3"), r)))
    /\ UNCHANGED << catalog, input, info >>

\* ffmpegProcess.on('error') of the conversion, a failed audio stream included.
Mp3Error(r) ==
    /\ pc[r] \in {"mp3", "converting"}
    /\ Apply(r, Outcome("done", << >>, << >>, << "convert_failed" >>,
                        abortWrite(files, filepath(titleOf(r), "mp3"), r)))
    /\ UNCHANGED << catalog, input, info >>

\* A stream stops delivering without an error, or ffmpeg neither ends nor
\* errors: no timer of the program is armed, so nothing wakes the handler.
WaitingPcs == {"single", "video", "audio", "merge", "merging", "mp3", "converting"}

Stall(r) ==
    /\ pc[r] \in WaitingPcs
    /\ pc' = [pc EXCEPT ![r] = "stalled"]
    /\ UNCHANGED << catalog, input, info, plan, started, resp, files, fetching,
                    videoInfo >>

\* ------------------------------------------------------ fs.unlinkSync throws
\* The disk after a clean-up whose unlinkSync threw: at the first of the two
\* lines, the temp video still there, or at the second, the temp video
\* removed if it existed and the temp audio still there.
cleanUpThrows(fs, title) ==
    { f \in {fs} : existsSync(fs, tempVideoPath(title)) }
    \cup
    { f \in {unlinkIfExists(fs, tempVideoPath(title))} :
        existsSync(fs, tempAudioPath(title)) }

\* The disk once the server process has ended: no file is open any more.
processExit(fs) == [p \in Paths |-> [st |-> fs[p].st, w |-> {}]]

\* A pipeline of downloadAndMergeMP4 rejects and unlinkSync throws inside
\* the catch block: the function rejects before its res.status(500), and the
\* catch of downloadMP4 answers with the message of the unlink error.
AcquisitionCleanUpThrows(r) ==
    /\ pc[r] \in {"video", "audio"}
    /\ \E fs \in cleanUpThrows(
                    abortWrite(files,
                               IF pc[r] = "video" THEN tempVideoPath(titleOf(r))
                               ELSE tempAudioPath(titleOf(r)), r),
                    titleOf(r)) :
         Apply(r, Outcome("done", << >>, << >>, << "mp4_failed" >>, fs))
    /\ UNCHANGED << catalog, input, info >>

\* The answer-less end of a listener of the merge whose unlinkSync threw:
\* the exception is uncaught (the file registers no handler for it) and the
\* process ends with every request in progress or still to come.
ListenerThrows(fs) ==
    /\ pc' = [q \in Req |-> IF pc[q] = "done" THEN "done" ELSE "crashed"]
    /\ files' = processExit(fs)
    /\ fetching' = [q \in Req |-> {}]
    /\ UNCHANGED << catalog, input, info, plan, started, resp, videoInfo >>

\* .on('end') of the merge with unlinkSync throwing before res.json.
MergeEndCleanUpThrows(r) ==
    /\ pc[r] = "merging"
    /\ \E fs \in cleanUpThrows(
                    finishWrite(files, filepath(titleOf(r), "mp4"), r),
                    titleOf(r)) :
         ListenerThrows(fs)

\* .on('error') of the merge with unlinkSync throwing before res.status(500).
MergeErrorCleanUpThrows(r) ==
    /\ pc[r] \in {"merge", "merging"}
    /\ \E fs \in cleanUpThrows(
                    abortWrite(files, filepath(titleOf(r), "mp4"), r),
                    titleOf(r)) :
         ListenerThrows(fs)

\* ------------------------------------------------------- POST /api/video-info
\* [...new Set(heights)]: the first occurrence of each element, in order.
RECURSIVE Unique(_)
Unique(seq) ==
    IF seq = << >> THEN << >>
    ELSE << Head(seq) >> \o SelectSeq(Unique(Tail(seq)), LAMBDA x : x # Head(seq))

\* allVideoFormats: the renditions with video, audio and a height, then
\* those with video, no audio and a height. contentLength is not looked at.
allVideoFormats(formats) ==
    SelectSeq(Indices(formats),
              LAMBDA i : /\ formats[i].hasVideo /\ formats[i].hasAudio
                         /\ formats[i].height # 0)
    \o SelectSeq(Indices(formats),
                 LAMBDA i : /\ formats[i].hasVideo /\ ~formats[i].hasAudio
                            /\ formats[i].height # 0)

\* availableQualities.video: the heights, sorted descending, without
\* repeats, each as '<height>p'.
videoQualities(formats) ==
    LET sorted  == SortDesc(allVideoFormats(formats), Heights(formats))
        heights == Unique([k \in 1 .. Len(sorted) |-> formats[sorted[k]].height])
    IN  [k \in 1 .. Len(heights) |-> P(heights[k])]

maxAttempts == 3

\* The factor of the setTimeout delay, in milliseconds.
RetryDelay == 1000

\* What the message of a rejected ytdl.getInfo can be for the handler: one
\* that includes 'Video unavailable', or any other.
LookupErrors == {"Video unavailable", "other"}

Lookup(r, l) ==
    /\ videoInfo' = [videoInfo EXCEPT ![r] = l]
    /\ UNCHANGED << catalog, pc, input, info, plan, started, resp, files,
                    fetching >>

\* The handler up to the first await of ytdl.getInfo in its loop.
InfoPost(r) ==
    /\ videoInfo[r].pc = "idle"
    /\ \E url \in Videos \cup {BadUrl} :
         Lookup(r, IF url = BadUrl
                   THEN [videoInfo[r] EXCEPT !.pc = "done",
                                             !.resp = @ \o << "invalid_url" >>]
                   ELSE [videoInfo[r] EXCEPT !.pc = "getInfo", !.calls = @ + 1])

\* ytdl.getInfo resolves: break, and the answer with the available qualities.
InfoGetInfoOk(r) ==
    /\ videoInfo[r].pc = "getInfo"
    /\ Lookup(r, [videoInfo[r] EXCEPT !.pc = "done", !.resp = @ \o << "info" >>])

\* InfoGetInfoFail giving up once attempts exceeds maxAttempts.
InfoGetInfoFailOneMore(r) ==
    /\ videoInfo[r].pc = "getInfo"
    /\ \E error \in LookupErrors :
         LET attempts == videoInfo[r].attempts + 1
             failed == [videoInfo[r] EXCEPT !.attempts = attempts,
                                            !.errors = @ \o << error >>]
         IN  Lookup(r, IF attempts > maxAttempts
                       THEN [failed EXCEPT
                                !.pc = "done",
                                !.resp = @ \o << IF error = "Video unavailable"
                                                 THEN "unavailable"
                                                 ELSE "info_failed" >>]
                       ELSE [failed EXCEPT
                                !.pc = "backoff",
                                !.waits = @ \o << RetryDelay * attempts >>])

\* InfoGetInfoFail testing for 'Video unavailable' before the attempts.
InfoGetInfoFailUnavailableFirst(r) ==
    /\ videoInfo[r].pc = "getInfo"
    /\ \E error \in LookupErrors :
         LET attempts == videoInfo[r].attempts + 1
             failed == [videoInfo[r] EXCEPT !.attempts = attempts,
                                            !.errors = @ \o << error >>]
         IN  Lookup(r, IF error = "Video unavailable"
                       THEN [failed EXCEPT !.pc = "done",
                                           !.resp = @ \o << "unavailable" >>]
                       ELSE IF attempts >= maxAttempts
                       THEN [failed EXCEPT !.pc = "done",
                                           !.resp = @ \o << "info_failed" >>]
                       ELSE [failed EXCEPT
                                !.pc = "backoff",
                                !.waits = @ \o << RetryDelay * attempts >>])

\* ytdl.getInfo rejects: the catch inside the loop, up to the answer of the
\* last attempt (the 400, or the 500 of the outer catch after the re-throw)
\* or to the await of the setTimeout promise.
InfoGetInfoFail(r) ==
    /\ videoInfo[r].pc = "getInfo"
    /\ \E error \in LookupErrors :
         LET attempts == videoInfo[r].attempts + 1
             failed == [videoInfo[r] EXCEPT !.attempts = attempts,
                                            !.errors = @ \o << error >>]
         IN  Lookup(r, IF attempts >= maxAttempts
                       THEN [failed EXCEPT
                                !.pc = "done",
                                !.resp = @ \o << IF error = "Video unavailable"
                                                 THEN "unavailable"
                                                 ELSE "info_failed" >>]
                       ELSE [failed EXCEPT
                                !.pc = "backoff",
                                !.waits = @ \o << RetryDelay * attempts >>])

\* The timer fires: the loop condition, then the next ytdl.getInfo, or, with
\* the loop left and info undefined, the TypeError answered by the outer catch.
InfoRetry(r) ==
    /\ videoInfo[r].pc = "backoff"
    /\ Lookup(r, IF videoInfo[r].attempts < maxAttempts
                 THEN [videoInfo[r] EXCEPT !.pc = "getInfo", !.calls = @ + 1]
                 ELSE [videoInfo[r] EXCEPT !.pc = "done",
                                           !.resp = @ \o << "info_failed" >>])

\* ------------------------------------------------------------ specification
\* Catalogs of the pipeline runs: one with a combined, a video-only and an
\* audio-only rendition, one without a combined rendition, one with nothing
\* but a combined rendition, and the empty one.
Combined(h)  == [hasVideo |-> TRUE, hasAudio |-> TRUE, height |-> h,
                 audioBitrate |-> 1, contentLength |-> 1]
VideoOnly(h) == [hasVideo |-> TRUE, hasAudio |-> FALSE, height |-> h,
                 audioBitrate |-> 0, contentLength |-> 1]
AudioOnly(b) == [hasVideo |-> FALSE, hasAudio |-> TRUE, height |-> 0,
                 audioBitrate |-> b, contentLength |-> 1]

PipelineCatalogs ==
    { << Combined(2), VideoOnly(1), AudioOnly(2) >>,
      << VideoOnly(2), AudioOnly(1) >>,
      << Combined(1) >>,
      << >> }

Idle ==
    /\ pc = [r \in Req |-> "idle"]
    /\ input = [r \in Req |-> NoInput]
    /\ info = [r \in Req |-> << >>]
    /\ plan = [r \in Req |-> << >>]
    /\ started = [r \in Req |-> << >>]
    /\ resp = [r \in Req |-> << >>]
    /\ files = [p \in Paths |-> NoFile]
    /\ fetching = [r \in Req |-> {}]
    /\ videoInfo = [r \in Req |-> NoLookup]

Init ==
    /\ catalog \in PipelineCatalogs
    /\ Idle

Next ==
    \E r \in Req :
        \/ Post(r)
        \/ GetInfoOk(r)
        \/ GetInfoFail(r)
        \/ SingleStreamOk(r)
        \/ SingleStreamFail(r)
        \/ VideoStreamOk(r)
        \/ VideoStreamFail(r)
        \/ AudioStreamOk(r)
        \/ AudioStreamFail(r)
        \/ MergeSave(r)
        \/ MergeEnd(r)
        \/ MergeError(r)
        \/ Mp3Save(r)
        \/ Mp3End(r)
        \/ Mp3Error(r)
        \/ Stall(r)

Spec == Init /\ [][Next]_vars

\* The selection alone, over every list of renditions within the bounds:
\* request 1 waits for ytdl.getInfo with any output format and quality, the
\* lookup resolves, and a single-stream fetch that was started fails.
SelInit ==
    /\ catalog \in FormatLists
    /\ \E format \in OutputFormats, quality \in Qualities :
         input = [r \in Req |->
                    IF r = 1 THEN [url |-> << "c" >>, format |-> format,
                                   quality |-> quality]
                    ELSE NoInput]
    /\ pc = [r \in Req |-> IF r = 1 THEN "getInfo" ELSE "idle"]
    /\ info = [r \in Req |-> << >>]
    /\ plan = [r \in Req |-> << >>]
    /\ started = [r \in Req |-> << >>]
    /\ resp = [r \in Req |-> << >>]
    /\ files = [p \in Paths |-> NoFile]
    /\ fetching = [r \in Req |-> {}]
    /\ videoInfo = [r \in Req |-> NoLookup]

SelNext == GetInfoOk(1) \/ SingleStreamFail(1)

SelSpec == SelInit /\ [][SelNext]_vars

\* The selection over lists of usable renditions that differ in size: the
\* two tallest heights, the two highest bitrates and two content lengths,
\* asked for the tallest height or for the best.
TieHeights  == {MaxHeight - 1, MaxHeight} \ {0}
TieBitrates == {MaxBitrate - 1, MaxBitrate} \ {0}
TieSizes    == {MaxSize, MaxSize + 1}

TieRenditions ==
    { [hasVideo |-> TRUE, hasAudio |-> TRUE, height |-> h, audioBitrate |-> 1,
       contentLength |-> c] : h \in TieHeights, c \in TieSizes }
    \cup
    { [hasVideo |-> TRUE, hasAudio |-> FALSE, height |-> h, audioBitrate |-> 0,
       contentLength |-> c] : h \in TieHeights, c \in TieSizes }
    \cup
    { [hasVideo |-> FALSE, hasAudio |-> TRUE, height |-> 0, audioBitrate |-> b,
       contentLength |-> c] : b \in TieBitrates, c \in TieSizes }

TieInit ==
    /\ catalog \in UNION { [1 .. n -> TieRenditions] : n \in 0 .. MaxFormats }
    /\ \E format \in OutputFormats, quality \in {Best, P(MaxHeight)} :
         input = [r \in Req |->
                    IF r = 1 THEN [url |-> << "c" >>, format |-> format,
                                   quality |-> quality]
                    ELSE NoInput]
    /\ pc = [r \in Req |-> IF r = 1 THEN "getInfo" ELSE "idle"]
    /\ info = [r \in Req |-> << >>]
    /\ plan = [r \in Req |-> << >>]
    /\ started = [r \in Req |-> << >>]
    /\ resp = [r \in Req |-> << >>]
    /\ files = [p \in Paths |-> NoFile]
    /\ fetching = [r \in Req |-> {}]
    /\ videoInfo = [r \in Req |-> NoLookup]

TieSpec == TieInit /\ [][SelNext]_vars

\* The selection over renditions that carry format.url or lack it, with or
\* without a contentLength, asked for the tallest height or for the best.
UrlRenditions ==
    { [hasVideo |-> TRUE, hasAudio |-> TRUE, height |-> h, audioBitrate |-> 1,
       contentLength |-> c, url |-> u] :
        h \in TieHeights, c \in {0, MaxSize}, u \in BOOLEAN }
    \cup
    { [hasVideo |-> TRUE, hasAudio |-> FALSE, height |-> h, audioBitrate |-> 0,
       contentLength |-> c, url |-> u] :
        h \in TieHeights, c \in {0, MaxSize}, u \in BOOLEAN }
    \cup
    { [hasVideo |-> FALSE, hasAudio |-> TRUE, height |-> 0, audioBitrate |-> b,
       contentLength |-> c, url |-> u] :
        b \in TieBitrates, c \in {0, MaxSize}, u \in BOOLEAN }

UrlInit ==
    /\ catalog \in UNION { [1 .. n -> UrlRenditions] : n \in 0 .. MaxFormats }
    /\ \E format \in OutputFormats, quality \in {Best, P(MaxHeight)} :
         input = [r \in Req |->
                    IF r = 1 THEN [url |-> << "c" >>, format |-> format,
                                   quality |-> quality]
                    ELSE NoInput]
    /\ pc = [r \in Req |-> IF r = 1 THEN "getInfo" ELSE "idle"]
    /\ info = [r \in Req |-> << >>]
    /\ plan = [r \in Req |-> << >>]
    /\ started = [r \in Req |-> << >>]
    /\ resp = [r \in Req |-> << >>]
    /\ files = [p \in Paths |-> NoFile]
    /\ fetching = [r \in Req |-> {}]
    /\ videoInfo = [r \in Req |-> NoLookup]

UrlSpec == UrlInit /\ [][SelNext]_vars

\* The download pipeline with unlinkSync able to throw.
FaultNext ==
    \/ Next
    \/ \E r \in Req :
         \/ AcquisitionCleanUpThrows(r)
         \/ MergeEndCleanUpThrows(r)
         \/ MergeErrorCleanUpThrows(r)

FaultSpec == Init /\ [][FaultNext]_vars

\* The /api/video-info requests alone.
InfoNext ==
    \E r \in Req :
        \/ InfoPost(r)
        \/ InfoGetInfoOk(r)
        \/ InfoGetInfoFail(r)
        \/ InfoRetry(r)

InfoSpec == Init /\ [][InfoNext]_vars

\* Every waiting handler is eventually resumed by the event loop once its
\* event (a pipeline settling, an ffmpeg 'end' or 'error') is delivered.
Resume(r) ==
    \/ GetInfoOk(r) \/ GetInfoFail(r)
    \/ SingleStreamOk(r) \/ SingleStreamFail(r)
    \/ VideoStreamOk(r) \/ VideoStreamFail(r)
    \/ AudioStreamOk(r) \/ AudioStreamFail(r)
    \/ MergeSave(r) \/ MergeEnd(r) \/ MergeError(r)
    \/ Mp3Save(r) \/ Mp3End(r) \/ Mp3Error(r)

FairSpec == Spec /\ \A r \in Req : WF_vars(Resume(r))

\* =================================================================== claims
\* Vocabulary of the claims, stated over the catalog itself.
UsableCombined(i) ==
    /\ catalog[i].hasVideo /\ catalog[i].hasAudio
    /\ catalog[i].height # 0 /\ catalog[i].contentLength # 0

UsableVideoOnly(i) ==
    /\ catalog[i].hasVideo /\ ~catalog[i].hasAudio
    /\ catalog[i].height # 0 /\ catalog[i].contentLength # 0

UsableAudioOnly(i) ==
    /\ ~catalog[i].hasVideo /\ catalog[i].hasAudio
    /\ catalog[i].audioBitrate # 0 /\ catalog[i].contentLength # 0

Positions == 1 .. Len(catalog)

\* Request r asks for mp4 at '<h>p' and its first selection has been made.
SelectedAtHeight(r, h) ==
    /\ input[r].format = "mp4"
    /\ input[r].quality = P(h)
    /\ plan[r] # << >>

IsError(answer) == answer # "success"

\* C1: a request is never answered twice, whatever path it takes.
C1_AtMostOneResponse == \A r \in Req : Len(resp[r]) <= 1

\* C1 witness: a single-stream fetch failed, the fallback merged the two
\* streams, and the one answer of the request is the success of the merge.
C1_Witness ==
    \E r \in Req : /\ pc[r] = "done" /\ Len(plan[r]) = 2
                   /\ started[r] = << "single", "video", "audio", "ffmpeg" >>
                   /\ resp[r] = << "success" >>

\* C2: every request that was received is eventually answered, also when a
\* fetch stalls or ffmpeg neither ends nor errors.
C2_EveryRequestAnswered ==
    \A r \in Req : (pc[r] # "idle") ~> (resp[r] # << >>)

\* C3: an mp4 request at '<h>p' over a catalog with a usable combined
\* rendition of height exactly h selects a combined rendition of height h
\* as a single stream, never the dual-stream plan.
C3_ExactCombinedIsSingleStream ==
    \A r \in Req : \A h \in 0 .. MaxHeight + 1 :
        ( /\ SelectedAtHeight(r, h)
          /\ \E i \in Positions : UsableCombined(i) /\ catalog[i].height = h )
        => /\ plan[r][1].kind = "single"
           /\ UsableCombined(plan[r][1].v)
           /\ catalog[plan[r][1].v].height = h

\* C3 witness: the exact combined rendition was selected although a
\* video-only rendition of the same height and an audio-only one were there.
C3_Witness ==
    \E r \in Req : \E h \in 1 .. MaxHeight :
        /\ SelectedAtHeight(r, h)
        /\ plan[r][1].kind = "single"
        /\ catalog[plan[r][1].v].height = h
        /\ \E i \in Positions : UsableVideoOnly(i) /\ catalog[i].height = h
        /\ \E i \in Positions : UsableAudioOnly(i)

\* C4: with no usable combined rendition of height exactly h but one of
\* height <= h, the selection is the single stream of the tallest usable
\* combined rendition not exceeding h, also when a video-only rendition of
\* height exactly h exists.
C4_ClosestBelowCombinedWins ==
    \A r \in Req : \A h \in 0 .. MaxHeight + 1 :
        ( /\ SelectedAtHeight(r, h)
          /\ ~ \E i \in Positions : UsableCombined(i) /\ catalog[i].height = h
          /\ \E i \in Positions : UsableCombined(i) /\ catalog[i].height <= h )
        => /\ plan[r][1].kind = "single"
           /\ UsableCombined(plan[r][1].v)
           /\ catalog[plan[r][1].v].height <= h
           /\ \A i \in Positions :
                (UsableCombined(i) /\ catalog[i].height <= h)
                => catalog[i].height <= catalog[plan[r][1].v].height

\* C4 witness: the combined rendition below h is the single stream although
\* a video-only rendition of height exactly h and an audio-only one, the
\* two halves of a dual-stream plan, were in the catalog.
C4_Witness ==
    \E r \in Req : \E h \in 1 .. MaxHeight + 1 :
        /\ SelectedAtHeight(r, h)
        /\ plan[r][1].kind = "single"
        /\ catalog[plan[r][1].v].height < h
        /\ \E i \in Positions : UsableVideoOnly(i) /\ catalog[i].height = h
        /\ \E i \in Positions : UsableAudioOnly(i)

\* C5 as claimed: with no usable combined rendition of height <= h, a usable
\* video-only rendition of any height and a usable audio-only rendition give
\* a dual-stream plan.
C5_AnyVideoOnlyGivesDual ==
    \A r \in Req : \A h \in 1 .. MaxHeight + 1 :
        ( /\ SelectedAtHeight(r, h)
          /\ ~ \E i \in Positions : UsableCombined(i) /\ catalog[i].height <= h
          /\ \E i \in Positions : UsableVideoOnly(i)
          /\ \E i \in Positions : UsableAudioOnly(i) )
        => plan[r][1].kind = "dual"

\* C5 amended: with no usable combined rendition of height <= h, a usable
\* video-only rendition of height <= h and a usable audio-only rendition
\* give a dual-stream plan whose video rendition does not exceed h.
C5_VideoOnlyBelowGivesDual ==
    \A r \in Req : \A h \in 0 .. MaxHeight + 1 :
        ( /\ SelectedAtHeight(r, h)
          /\ ~ \E i \in Positions : UsableCombined(i) /\ catalog[i].height <= h
          /\ \E i \in Positions : UsableVideoOnly(i) /\ catalog[i].height <= h
          /\ \E i \in Positions : UsableAudioOnly(i) )
        => /\ plan[r][1].kind = "dual"
           /\ UsableVideoOnly(plan[r][1].v)
           /\ catalog[plan[r][1].v].height <= h
           /\ UsableAudioOnly(plan[r][1].a)

\* C5 witness: a dual-stream plan whose video rendition does not exceed h,
\* chosen while a usable combined rendition taller than h was in the catalog.
C5_Witness ==
    \E r \in Req : \E h \in 1 .. MaxHeight + 1 :
        /\ SelectedAtHeight(r, h)
        /\ plan[r][1].kind = "dual"
        /\ catalog[plan[r][1].v].height <= h
        /\ \E i \in Positions : UsableCombined(i) /\ catalog[i].height > h

\* Request r asks for mp3 and its selection has been made.
SelectedAudio(r) == input[r].format = "mp3" /\ plan[r] # << >>

MaxUsableBitrate(i) ==
    /\ UsableAudioOnly(i)
    /\ \A j \in Positions :
         UsableAudioOnly(j) => catalog[j].audioBitrate <= catalog[i].audioBitrate

\* C6 as claimed: an mp3 request at '<k>kbps' fetches a usable audio-only
\* rendition of bitrate exactly k when there is one, else one of the
\* highest bitrate.
C6_ExactBitrateFirst ==
    \A r \in Req : \A k \in 1 .. MaxBitrate :
        ( /\ SelectedAudio(r) /\ input[r].quality = Kbps(k)
          /\ \E i \in Positions : UsableAudioOnly(i) )
        => /\ plan[r][1].kind = "audio"
           /\ IF \E i \in Positions : UsableAudioOnly(i) /\ catalog[i].audioBitrate = k
              THEN catalog[plan[r][1].a].audioBitrate = k
              ELSE MaxUsableBitrate(plan[r][1].a)

\* C6 amended: an mp3 request fetches the first usable audio-only rendition
\* of the highest bitrate, whatever quality it asks for.
C6_HighestBitrateAlways ==
    \A r \in Req :
        ( SelectedAudio(r) /\ \E i \in Positions : UsableAudioOnly(i) )
        => /\ plan[r][1].kind = "audio"
           /\ MaxUsableBitrate(plan[r][1].a)
           /\ \A j \in 1 .. plan[r][1].a - 1 : ~ MaxUsableBitrate(j)

\* C6 witness: '<k>kbps' was asked, a usable rendition of bitrate k exists
\* and the rendition selected has a higher bitrate.
C6_Witness ==
    \E r \in Req : \E k \in 1 .. MaxBitrate :
        /\ SelectedAudio(r) /\ input[r].quality = Kbps(k)
        /\ \E i \in Positions : UsableAudioOnly(i) /\ catalog[i].audioBitrate = k
        /\ plan[r][1].kind = "audio"
        /\ catalog[plan[r][1].a].audioBitrate > k

TempFilesGone(fs, r) ==
    /\ ~ existsSync(fs, tempVideoPath(titleOf(r)))
    /\ ~ existsSync(fs, tempAudioPath(titleOf(r)))

\* C8: when both fetches of a dual-stream request have succeeded, both temp
\* files are on disk as the merge starts, and neither is when the request
\* is answered after the merge.
C8_TempFilesAroundMerge ==
    [][ \A r \in Req :
          /\ (pc[r] = "audio" /\ pc'[r] = "merge")
             => /\ existsSync(files', tempVideoPath(titleOf(r)))
                /\ existsSync(files', tempAudioPath(titleOf(r)))
          /\ (pc[r] \in {"merge", "merging"} /\ resp'[r] # resp[r])
             => TempFilesGone(files', r) ]_vars

\* C9: when the catch of downloadAndMergeMP4 answers (no plan, video fetch
\* failed, audio fetch failed), neither temp path of the request holds a
\* file in the state the answer is sent in.
C9_NoTempFileAtAcquisitionError ==
    [][ \A r \in Req :
          resp'[r] = resp[r] \o << "merge_failed" >> => TempFilesGone(files', r) ]_vars

\* C9 witness: the audio fetch failed after the video fetch had succeeded,
\* the request was answered with the error and both temp paths are empty.
C9_Witness ==
    \E r \in Req :
        /\ pc[r] = "done"
        /\ started[r] = << "video", "audio" >>
        /\ resp[r] = << "merge_failed" >>
        /\ TempFilesGone(files, r)

\* C10: a request that ended with an error leaves no partially written
\* file at downloads/<title>.mp4 or downloads/<title>.mp3.
C10_NoPartialFileAfterError ==
    \A r \in Req :
        ( pc[r] = "done" /\ resp[r] # << >> /\ IsError(resp[r][1])
          /\ input[r].url # BadUrl )
        => files[filepath(titleOf(r), input[r].format)].st # "partial"

\* The step is one of request r's handlers.
Moves(r) ==
    \/ pc'[r] # pc[r] \/ plan'[r] # plan[r]
    \/ started'[r] # started[r] \/ resp'[r] # resp[r]

\* How often x was started by a request.
Count(seq, x) == Cardinality({ i \in DOMAIN seq : seq[i] = x })

\* C11: after every step of a request, the request has started at most one
\* single-stream fetch and at most one
\* dual-stream acquisition; a second selection is made only after a failed
\* single stream, over the original list, and never picks the rendition
\* that failed; a failed fetch of a dual-stream acquisition answers with the
\* error at once, an answered request is done, and nothing is started after
\* an answer.
C11_OneFallbackThenTerminal ==
    [][ \A r \in Req :
          Moves(r) =>
          /\ Count(started'[r], "single") <= 1
          /\ Count(started'[r], "video") <= 1
          /\ Count(started'[r], "audio") <= 1
          /\ Len(plan'[r]) <= 2
          /\ Len(plan'[r]) = 2
             => /\ plan'[r][1].kind = "single"
                /\ Count(started'[r], "single") = 1
                /\ plan'[r][2].kind \in {"dual", "noplan"}
                /\ plan'[r][2].v # plan'[r][1].v
                /\ plan'[r][2].a # plan'[r][1].v
          /\ ( /\ pc[r] \in {"video", "audio"}
               /\ pc'[r] \notin {pc[r], "stalled"}
               /\ started'[r] = started[r] )
             => /\ pc'[r] = "done"
                /\ resp'[r] = << "merge_failed" >>
          /\ resp[r] # << >>
             => /\ started'[r] = started[r]
                /\ pc'[r] = "done"
          /\ resp'[r] # << >> => pc'[r] = "done" ]_vars

\* C11 witness: the single stream failed, the dual-stream acquisition was
\* tried once, its video fetch failed and the request ended with the error.
C11_Witness ==
    \E r \in Req :
        /\ pc[r] = "done"
        /\ Len(plan[r]) = 2 /\ plan[r][2].kind = "dual"
        /\ started[r] = << "single", "video" >>
        /\ resp[r] = << "merge_failed" >>

\* The catalog has nothing request r could be served from, whatever quality
\* it asks for: no usable audio-only rendition for mp3; for mp4 no usable
\* combined rendition and not both halves of a dual-stream plan.
NothingToSelect(r) ==
    IF input[r].format = "mp3"
    THEN ~ \E i \in Positions : UsableAudioOnly(i)
    ELSE /\ ~ \E i \in Positions : UsableCombined(i)
         /\ \/ ~ \E i \in Positions : UsableVideoOnly(i)
            \/ ~ \E i \in Positions : UsableAudioOnly(i)

\* C12: when the first selection of a request finds no plan, the same run
\* of the handler answers with one error and ends the request: no stream is
\* opened, ffmpeg is not started, no file is created or opened, and no
\* second selection is made. It finds no plan whenever the catalog has
\* nothing to select from.
C12_NoPlanAnswersAtOnce ==
    [][ \A r \in Req :
          ( /\ plan[r] = << >> /\ plan'[r] # << >>
            /\ (plan'[r][1].kind = "noplan" \/ NothingToSelect(r)) )
          => /\ plan'[r][1].kind = "noplan"
             /\ Len(plan'[r]) = 1
             /\ pc'[r] = "done"
             /\ Len(resp'[r]) = 1 /\ IsError(resp'[r][1])
             /\ started'[r] = << >>
             /\ fetching'[r] = {}
             /\ \A p \in Paths :
                  /\ existsSync(files', p) => existsSync(files, p)
                  /\ files'[p].w \subseteq files[p].w ]_vars

\* C12 witness: an mp4 request over a catalog with a usable video-only
\* rendition and no audio-only one ended with the error and nothing started.
C12_Witness ==
    \E r \in Req :
        /\ input[r].format = "mp4"
        /\ \E i \in Positions : UsableVideoOnly(i)
        /\ Len(plan[r]) = 1
        /\ plan[r][1].kind = "noplan" /\ plan[r][1].v # 0 /\ plan[r][1].a = 0
        /\ pc[r] = "done"
        /\ resp[r] = << "merge_failed" >>
        /\ started[r] = << >>
        /\ \A p \in Paths : ~ existsSync(files, p)

\* Request r is on the dual-stream plan.
DualJob(r) == plan[r] # << >> /\ plan[r][Len(plan[r])].kind = "dual"

\* C13: a dual-stream job one of whose fetches never ends (it exceeds any
\* deadline) is failed and has every fetch cancelled after a bounded delay:
\* eventually the request is answered and none of its fetches is in flight.
C13_OverdueFetchIsCancelled ==
    \A r \in Req :
        (DualJob(r) /\ pc[r] = "stalled" /\ fetching[r] # {})
        ~> (resp[r] # << >> /\ fetching[r] = {})

PathsOf(r) ==
    IF input[r].format = "mp3"
    THEN { filepath(titleOf(r), "mp3") }
    ELSE { filepath(titleOf(r), "mp4"), tempVideoPath(titleOf(r)),
           tempAudioPath(titleOf(r)) }

\* Request r has its title and is not answered yet.
InFlight(r) == pc[r] \notin {"idle", "getInfo", "done"}

\* C15: two requests that are in flight together never have a path in
\* common among the paths they write or delete.
C15_DisjointPaths ==
    \A r, q \in Req :
        (r # q /\ InFlight(r) /\ InFlight(q)) => PathsOf(r) \cap PathsOf(q) = {}

\* The /api/video-info request r has been answered with an error of the
\* lookup.
LookupGaveUp(r) ==
    /\ videoInfo[r].pc = "done"
    /\ Len(videoInfo[r].resp) = 1
    /\ videoInfo[r].resp[1] \in {"unavailable", "info_failed"}

\* C16: a /api/video-info request calls ytdl.getInfo at most 3 times; call
\* n+1 is made only after a wait of n seconds that follows the n-th failure;
\* a first or second failure is followed by a wait and never by an error
\* answer; and the third failure is answered with an error at once.
C16_LookupRetriedThreeTimes ==
    \A r \in Req :
        LET l == videoInfo[r]
        IN  /\ l.calls <= 3
            /\ Len(l.errors) <= 3
            /\ Len(l.waits) <= 2
            /\ \A n \in DOMAIN l.waits : l.waits[n] = 1000 * n
            /\ l.pc = "getInfo" => l.calls = Len(l.waits) + 1
                                   /\ Len(l.errors) = Len(l.waits)
            /\ l.pc = "backoff" => l.calls = Len(l.waits)
                                   /\ Len(l.errors) = Len(l.waits)
            /\ Len(l.errors) = 3 => LookupGaveUp(r)
            /\ LookupGaveUp(r) => Len(l.errors) = 3 /\ l.calls = 3

\* C16 witness: three failed calls with waits of 1 s and 2 s between them,
\* answered with the error.
C16_Witness ==
    \E r \in Req :
        /\ videoInfo[r].calls = 3
        /\ videoInfo[r].errors = << "other", "other", "other" >>
        /\ videoInfo[r].waits = << 1000, 2000 >>
        /\ videoInfo[r].resp = << "info_failed" >>

FfmpegStarted(r) == Count(started[r], "ffmpeg") > 0

\* C18: a request whose ffmpeg process never exits is answered (with the
\* processing-timeout error) once the ceiling expires, its temp files gone.
C18_FfmpegCeiling ==
    \A r \in Req :
        (FfmpegStarted(r) /\ pc[r] = "stalled")
        ~> ( /\ FfmpegStarted(r)
             /\ resp[r] # << >> /\ IsError(resp[r][1])
             /\ TempFilesGone(files, r) )

Chosen(r) ==
    ( { plan[r][k].v : k \in DOMAIN plan[r] }
      \cup { plan[r][k].a : k \in DOMAIN plan[r] } ) \ {0}

\* Rendition j is a usable one of the kind, height and bitrate of rendition i.
Ties(i, j) ==
    /\ catalog[j].hasVideo = catalog[i].hasVideo
    /\ catalog[j].hasAudio = catalog[i].hasAudio
    /\ catalog[j].height = catalog[i].height
    /\ catalog[j].audioBitrate = catalog[i].audioBitrate
    /\ catalog[j].contentLength # 0

\* C20 as claimed: no usable rendition of the kind, height and bitrate of a
\* selected one is larger than it, and none of its size stands before it in
\* info.formats.
C20_LargerSizeWinsTie ==
    \A r \in Req : \A i \in Chosen(r) : \A j \in Positions :
        Ties(i, j)
        => /\ catalog[j].contentLength <= catalog[i].contentLength
           /\ catalog[j].contentLength = catalog[i].contentLength => i <= j

\* C20 as the code has it: no usable rendition of the kind, height and
\* bitrate of a selected one stands before it in info.formats, whatever
\* their sizes.
C20_FirstInCatalogWinsTie ==
    \A r \in Req : \A i \in Chosen(r) : \A j \in Positions : Ties(i, j) => i <= j

\* C20 witness: the selected rendition stands before a larger one it ties
\* with.
C20_Witness ==
    \E r \in Req : \E i \in Chosen(r) : \E j \in Positions :
        /\ Ties(i, j)
        /\ i < j
        /\ catalog[j].contentLength > catalog[i].contentLength

\* Request r asks for mp4 at 'best' or at '<h>p' with h at least 1.
AsksVideo(r) ==
    /\ input[r].format = "mp4"
    /\ \/ input[r].quality = Best
       \/ input[r].quality.unit = "p" /\ input[r].quality.n >= 1

\* Rendition i is not taller than request r allows.
WithinRequest(r, i) ==
    input[r].quality = Best \/ catalog[i].height <= input[r].quality.n

\* Rendition i is a usable video-only rendition request r allows, and no
\* such rendition is taller: the exact height when there is one, else the
\* closest below, or the tallest for 'best'.
ClosestVideoOnly(r, i) ==
    /\ UsableVideoOnly(i) /\ WithinRequest(r, i)
    /\ \A j \in Positions :
         (UsableVideoOnly(j) /\ WithinRequest(r, j))
         => catalog[j].height <= catalog[i].height

C22_SelectedIsFetchable ==
    \A r \in Req : \A i \in Chosen(r) :
        catalog[i].url /\ catalog[i].contentLength # 0

\* C23: whenever the wait of a dual-stream request ends, the caller gets
\* the answer of what ended it, whether or not the removal of the temp files
\* succeeds: success or the merge error when ffmpeg ends, the merge error
\* when ffmpeg fails to start, the acquisition error when a fetch fails.
C23_CleanUpFailureMasksNothing ==
    [][ \A r \in Req :
          /\ (pc[r] = "merging" /\ pc'[r] \notin {"merging", "stalled"})
             => resp'[r] \in {<< "success" >>, << "merge_error" >>}
          /\ (pc[r] = "merge" /\ pc'[r] \notin {"merge", "merging", "stalled"})
             => resp'[r] = << "merge_error" >>
          /\ ( /\ pc[r] \in {"video", "audio"}
               /\ pc'[r] \notin {"video", "audio", "merge", "stalled"} )
             => resp'[r] = << "merge_failed" >> ]_vars

\* Request r is on the single-stream path and has not fallen back.
SingleJob(r) == Len(plan[r]) = 1 /\ plan[r][1].kind = "single"

\* C24: a request on the single-stream path has started its one fetch and
\* nothing else, ffmpeg least of all; it writes to downloads/<title>.mp4 and
\* holds no temp file open; and when it ends, it ends with the success
\* answer, sent in the step in which the fetch completes.
C24_SingleStreamStraightToFile ==
    [][ \A r \in Req :
          SingleJob(r)'
          => /\ started'[r] = << "single" >>
             /\ r \notin files'[tempVideoPath(titleOf(r))].w
             /\ r \notin files'[tempAudioPath(titleOf(r))].w
             /\ pc'[r] \in {"single", "stalled", "done"}
             /\ pc'[r] = "single" => r \in files'[filepath(titleOf(r), "mp4")].w
             /\ pc'[r] = "done" <=> resp'[r] = << "success" >>
             /\ pc'[r] # "done" => resp'[r] = << >>
             /\ (pc[r] # "done" /\ pc'[r] = "done")
                => /\ pc[r] = "single"
                   /\ fetching'[r] = {}
                   /\ r \notin files'[filepath(titleOf(r), "mp4")].w ]_vars

\* C24 witness: a single-stream request answered with success, its file
\* written to the end, with no temp file on disk.
C24_Witness ==
    \E r \in Req :
        /\ SingleJob(r)
        /\ pc[r] = "done"
        /\ resp[r] = << "success" >>
        /\ started[r] = << "single" >>
        /\ files[filepath(titleOf(r), "mp4")].st = "complete"
        /\ TempFilesGone(files, r)

\* The positions of the video renditions request r fetches under its plans.
FetchedVideo(r) ==
    { plan[r][k].v : k \in { j \in DOMAIN plan[r] :
                              plan[r][j].kind \in {"single", "dual"} } }

\* C25 as claimed: for every h, 0 included, no video rendition fetched for
\* an mp4 request at '<h>p' is taller than h.
C25_NeverTallerThanRequested ==
    \A r \in Req : \A h \in 0 .. MaxHeight + 1 :
        SelectedAtHeight(r, h)
        => \A i \in FetchedVideo(r) : catalog[i].height <= h

\* C25 as the code has it: for h at least 1 no video rendition fetched for
\* an mp4 request at '<h>p' is taller than h, on the single-stream path, on
\* the dual-stream path and in the fallback; a request at '0p' fetches the
\* tallest rendition of its kind, as one for 'best' does.
C25_NeverTallerFromOneUp ==
    \A r \in Req :
        /\ \A h \in 1 .. MaxHeight + 1 :
             SelectedAtHeight(r, h)
             => \A i \in FetchedVideo(r) : catalog[i].height <= h
        /\ SelectedAtHeight(r, 0)
           => \A i \in FetchedVideo(r) : \A j \in Positions :
                ( \/ UsableCombined(i) /\ UsableCombined(j)
                  \/ UsableVideoOnly(i) /\ UsableVideoOnly(j) )
                => catalog[j].height <= catalog[i].height

\* C25 witness: a dual-stream plan at '<h>p' whose video is not taller than
\* h although a taller usable video-only rendition is in the catalog.
C25_Witness ==
    \E r \in Req : \E h \in 1 .. MaxHeight :
        /\ SelectedAtHeight(r, h)
        /\ plan[r][1].kind = "dual"
        /\ catalog[plan[r][1].v].height <= h
        /\ \E j \in Positions : UsableVideoOnly(j) /\ catalog[j].height > h

\* C26: an mp4 request at a quality that /api/video-info lists for the
\* catalog selects, alone or as the video of a dual stream, a rendition of
\* exactly the listed height, and never ends without a plan.
C26_AdvertisedQualityHonoured ==
    \A r \in Req : \A k \in DOMAIN videoQualities(catalog) :
        ( /\ input[r].format = "mp4"
          /\ input[r].quality = videoQualities(catalog)[k]
          /\ plan[r] # << >> )
        => /\ plan[r][1].kind \in {"single", "dual"}
           /\ catalog[plan[r][1].v].height = input[r].quality.n

====
